---- MODULE Spec2Model ----
(***************************************************************************)
(* Model of the keyed resource pool of src/src/v1/internal/pool.js.        *)
(*                                                                         *)
(* The pool object is the pair (pools, keyOrder): the JavaScript object    *)
(* this._pools is a mapping whose key set is DOMAIN pools and whose        *)
(* property enumeration order (Object.keys) is keyOrder.  this._maxIdle is *)
(* maxIdle.  The three injected callbacks are the environment: create      *)
(* hands out the next unused resource identity or throws, validate answers *)
(* from the set valid, destroy is recorded in destroyCalls.  The callers   *)
(* keep the contract of the release callback: it is invoked once for a     *)
(* resource that acquire handed out, with the key the resource was created *)
(* for.                                                                    *)
(***************************************************************************)
EXTENDS Integers, Sequences, FiniteSets, TLC

\* ------------------------------------------------------------------ bounds
MaxRes == 3          \* resources the factory can create in one behaviour
MaxIdleBound == 2    \* largest maxIdle handed to the constructor

Keys == {"a", "b"}
Res == 1..MaxRes
NoKey == "none"
NoRes == 0
Threw == MaxRes + 1

VARIABLES
    pools,          \* this._pools: present key -> idle list (stack, top last)
    keyOrder,       \* enumeration order of the keys of this._pools
    maxIdle,        \* this._maxIdle
    valid,          \* resources the validator currently accepts
    nextId,         \* identity of the next resource the factory creates
    keyOf,          \* key each created resource was created for
    borrowed,       \* resources handed to a caller and not yet released
    destroyCalls,   \* number of destroy calls per resource (saturates at 2)
    last,           \* the most recent step and what it did
    stale,          \* borrowed resources whose key was purged meanwhile
    rejected,       \* resources released while the validator rejected them
    streak,         \* run of validator-accepted releases onto an empty list
    acquired        \* keys acquired and not purged since

vars == <<pools, keyOrder, maxIdle, valid, nextId, keyOf, borrowed,
          destroyCalls, last, stale, rejected, streak, acquired>>

\* ------------------------------------------------------------ pure helpers
Min(a, b) == IF a < b THEN a ELSE b

Range(s) == {s[i] : i \in 1..Len(s)}

Reverse(s) == [i \in 1..Len(s) |-> s[Len(s) + 1 - i]]

Remove(s, x) == SelectSeq(s, LAMBDA y : y # x)

Count(s, x) == Cardinality({i \in 1..Len(s) : s[i] = x})

\* slip: shift() instead of pop(), the oldest idle resource comes first
TopFifo(pool) == pool[1]

\* Array.prototype.pop: the last element and the array without it
Top(pool) == pool[Len(pool)]
Popped(pool) == SubSeq(pool, 1, Len(pool) - 1)

\* key in this._pools
has(p, key) == key \in DOMAIN p

\* slip: a new key's list is stored only once it holds something, so an
\* acquire whose create throws leaves the key unknown
SetPoolLazy(p, key, pool) ==
    IF ~has(p, key) /\ pool = <<>> THEN p
    ELSE [x \in DOMAIN p \cup {key} |-> IF x = key THEN pool ELSE p[x]]

\* this._pools[key] = pool
SetPool(p, key, pool) ==
    [x \in DOMAIN p \cup {key} |-> IF x = key THEN pool ELSE p[x]]

\* slip: this._pools = {} instead of deleting one key
DeletePoolAll(p, key) == <<>>

\* delete this._pools[key]
DeletePool(p, key) == [x \in DOMAIN p \ {key} |-> p[x]]

\* this._pools[key] || []
PoolOrEmpty(p, key) == IF has(p, key) THEN p[key] ELSE <<>>

\* the callbacks
validate(resource) == resource \in valid

Destroyed(calls, seq) ==
    [r \in Res |-> Min(2, calls[r] + Count(seq, r))]

Idle(p) == UNION {Range(p[k]) : k \in DOMAIN p}

NoOp == [op |-> "init", key |-> NoKey, res |-> NoRes, ret |-> NoRes,
         created |-> 0, validated |-> <<>>, destroyed |-> <<>>,
         known |-> FALSE, before |-> <<>>, accepts |-> {}, wasStale |-> FALSE]

NoStreak == [key |-> NoKey, count |-> 0, res |-> NoRes, destroyed |-> <<>>]

\* -------------------------------------------------------------------- Init
\* constructor: no key is known; maxIdle is the caller's choice
Init ==
    /\ pools = <<>>
    /\ keyOrder = <<>>
    /\ maxIdle \in 0..MaxIdleBound
    /\ valid = {}
    /\ nextId = 1
    /\ keyOf = [r \in Res |-> NoKey]
    /\ borrowed = {}
    /\ destroyCalls = [r \in Res |-> 0]
    /\ last = NoOp
    /\ stale = {}
    /\ rejected = {}
    /\ streak = NoStreak
    /\ acquired = {}

\* ----------------------------------------------------------------- acquire
\* slip: the hit is read from the end of the array but not removed
HitKeeps(pool, seen) ==
    [pool |-> pool, hit |-> Top(pool),
     validated |-> Append(seen, Top(pool)), destroyed |-> seen]

\* resource = pool.pop(); validate said yes; return resource
Hit(pool, seen) ==
    [pool |-> Popped(pool), hit |-> Top(pool),
     validated |-> Append(seen, Top(pool)), destroyed |-> seen]

\* slip: the popped resource is returned without asking the validator
PopLoopNoValidate(pool, seen) ==
    IF Len(pool) = 0
    THEN [pool |-> pool, hit |-> NoRes, validated |-> seen, destroyed |-> seen]
    ELSE [pool |-> Popped(pool), hit |-> Top(pool),
          validated |-> seen, destroyed |-> seen]

\* slip: if instead of while, one rejected resource and the loop gives up
PopLoopGivesUp(pool, seen) ==
    IF Len(pool) = 0
    THEN [pool |-> pool, hit |-> NoRes, validated |-> seen, destroyed |-> seen]
    ELSE IF validate(Top(pool))
         THEN Hit(pool, seen)
         ELSE [pool |-> Popped(pool), hit |-> NoRes,
               validated |-> Append(seen, Top(pool)),
               destroyed |-> Append(seen, Top(pool))]

\* the while loop of acquire: pop, validate, return the hit or destroy
RECURSIVE PopLoop(_, _)
PopLoop(pool, seen) ==
    IF Len(pool) = 0
    THEN [pool |-> pool, hit |-> NoRes, validated |-> seen, destroyed |-> seen]
    ELSE IF validate(Top(pool))
         THEN Hit(pool, seen)
         ELSE PopLoop(Popped(pool), Append(seen, Top(pool)))

Acquire(key) ==
    LET known == has(pools, key)
        before == PoolOrEmpty(pools, key)
        loop == PopLoop(before, <<>>)
        \* the resource the directly preceding release pushed onto this key
        pushed == IF last.op = "release" /\ last.key = key
                     /\ last.destroyed = <<>>
                  THEN last.res ELSE NoRes
        rec(ret, made) ==
            [op |-> "acquire", key |-> key, res |-> pushed, ret |-> ret,
             created |-> made, validated |-> loop.validated,
             destroyed |-> loop.destroyed, known |-> known,
             before |-> before,
             accepts |-> {r \in Range(before) : validate(r)},
             wasStale |-> FALSE]
    IN
    /\ pools' = SetPool(pools, key, loop.pool)
    /\ keyOrder' = IF known THEN keyOrder ELSE Append(keyOrder, key)
    /\ destroyCalls' = Destroyed(destroyCalls, loop.destroyed)
    /\ streak' = IF streak.key = key THEN NoStreak ELSE streak
    /\ IF loop.hit # NoRes
       THEN /\ borrowed' = borrowed \cup {loop.hit}
            /\ last' = rec(loop.hit, 0)
            /\ valid' = valid \ Range(loop.destroyed)
            /\ UNCHANGED <<nextId, keyOf>>
       ELSE \/ /\ nextId <= MaxRes          \* create returns a new resource
               /\ borrowed' = borrowed \cup {nextId}
               /\ keyOf' = [keyOf EXCEPT ![nextId] = key]
               /\ valid' = (valid \ Range(loop.destroyed)) \cup {nextId}
               /\ nextId' = nextId + 1
               /\ last' = rec(nextId, 1)
            \/ /\ last' = rec(Threw, 1)     \* create throws
               /\ valid' = valid \ Range(loop.destroyed)
               /\ UNCHANGED <<nextId, keyOf, borrowed>>
    /\ stale' = stale \ Range(loop.destroyed)
    /\ acquired' = acquired \cup {key}
    /\ UNCHANGED <<maxIdle, rejected>>

\* ---------------------------------------------------------------- _release
\* slip: > instead of >=
FullOffByOne(pool) == Len(pool) > maxIdle

\* pool.length >= this._maxIdle
Full(pool) == Len(pool) >= maxIdle

\* slip: a missing list is created again instead of destroying the resource
releaseReadmits(p, key, resource) ==
    IF ~has(p, key)
    THEN [pools |-> SetPool(p, key, <<resource>>),
          log |-> <<>>, asked |-> <<>>]
    ELSE IF Full(p[key])
    THEN [pools |-> p, log |-> <<resource>>, asked |-> <<>>]
    ELSE IF ~validate(resource)
    THEN [pools |-> p, log |-> <<resource>>, asked |-> <<resource>>]
    ELSE [pools |-> SetPool(p, key, Append(p[key], resource)),
          log |-> <<>>, asked |-> <<resource>>]

\* slip: unshift instead of push, the resource becomes the oldest element
releaseUnshift(p, key, resource) ==
    IF ~has(p, key)
    THEN [pools |-> p, log |-> <<resource>>, asked |-> <<>>]
    ELSE IF Full(p[key])
    THEN [pools |-> p, log |-> <<resource>>, asked |-> <<>>]
    ELSE IF ~validate(resource)
    THEN [pools |-> p, log |-> <<resource>>, asked |-> <<resource>>]
    ELSE [pools |-> SetPool(p, key, <<resource>> \o p[key]),
          log |-> <<>>, asked |-> <<resource>>]

\* slip: the validator is not asked on release
releaseNoValidate(p, key, resource) ==
    IF ~has(p, key)
    THEN [pools |-> p, log |-> <<resource>>, asked |-> <<>>]
    ELSE IF Full(p[key])
    THEN [pools |-> p, log |-> <<resource>>, asked |-> <<>>]
    ELSE [pools |-> SetPool(p, key, Append(p[key], resource)),
          log |-> <<>>, asked |-> <<>>]

\* the body of _release on the pool object: log collects the destroy calls,
\* asked the validate calls
release(p, key, resource) ==
    IF ~has(p, key)
    THEN [pools |-> p, log |-> <<resource>>, asked |-> <<>>]
    ELSE IF Full(p[key])
    THEN [pools |-> p, log |-> <<resource>>, asked |-> <<>>]
    ELSE IF ~validate(resource)
    THEN [pools |-> p, log |-> <<resource>>, asked |-> <<resource>>]
    ELSE [pools |-> SetPool(p, key, Append(p[key], resource)),
          log |-> <<>>, asked |-> <<resource>>]

Release(key, resource) ==
    LET st == release(pools, key, resource)
        ok == has(pools, key) /\ validate(resource)
    IN
    /\ resource \in borrowed
    /\ key = keyOf[resource]
    /\ pools' = st.pools
    /\ destroyCalls' = Destroyed(destroyCalls, st.log)
    /\ borrowed' = borrowed \ {resource}
    /\ last' = [op |-> "release", key |-> key, res |-> resource,
                ret |-> NoRes, created |-> 0, validated |-> st.asked,
                destroyed |-> st.log, known |-> has(pools, key),
                before |-> PoolOrEmpty(pools, key),
                accepts |-> {resource} \cap valid,
                wasStale |-> resource \in stale]
    /\ rejected' = IF validate(resource) THEN rejected
                   ELSE rejected \cup {resource}
    /\ streak' =
         IF ok /\ streak.key = key THEN
             [key |-> key, count |-> streak.count + 1, res |-> resource,
              destroyed |-> streak.destroyed \o st.log]
         ELSE IF ok /\ pools[key] = <<>> THEN
             [key |-> key, count |-> 1, res |-> resource,
              destroyed |-> st.log]
         ELSE IF streak.key = key THEN NoStreak
         ELSE streak
    /\ valid' = valid \ Range(st.log)
    /\ stale' = stale \ {resource}
    /\ UNCHANGED <<keyOrder, maxIdle, nextId, keyOf, acquired>>

\* ------------------------------------------------------------------- purge
\* slip: the idle resources are destroyed by iterating, not popping, and
\* the key is not deleted: the destroyed resources stay idle
purgeLeavesList(st, key) ==
    [pools |-> st.pools,
     keyOrder |-> st.keyOrder,
     log |-> st.log \o Reverse(PoolOrEmpty(st.pools, key))]

\* slip: the list is emptied but the key stays in the mapping
purgeKeepsKey(st, key) ==
    [pools |-> IF has(st.pools, key) THEN SetPool(st.pools, key, <<>>)
               ELSE st.pools,
     keyOrder |-> st.keyOrder,
     log |-> st.log \o Reverse(PoolOrEmpty(st.pools, key))]

\* the body of purge on the pool object; log collects the destroy calls
purge(st, key) ==
    [pools |-> DeletePool(st.pools, key),
     keyOrder |-> Remove(st.keyOrder, key),
     log |-> st.log \o Reverse(PoolOrEmpty(st.pools, key))]

Purge(key) ==
    LET st == purge([pools |-> pools, keyOrder |-> keyOrder, log |-> <<>>],
                    key)
    IN
    /\ pools' = st.pools
    /\ keyOrder' = st.keyOrder
    /\ destroyCalls' = Destroyed(destroyCalls, st.log)
    /\ last' = [op |-> "purge", key |-> key, res |-> NoRes, ret |-> NoRes,
                created |-> 0, validated |-> <<>>, destroyed |-> st.log,
                known |-> has(pools, key),
                before |-> PoolOrEmpty(pools, key),
                accepts |-> {}, wasStale |-> FALSE]
    /\ valid' = valid \ Range(st.log)
    /\ stale' = (stale \ Range(st.log))
                   \cup {r \in borrowed : keyOf[r] = key}
    /\ streak' = IF streak.key = key THEN NoStreak ELSE streak
    /\ acquired' = acquired \ {key}
    /\ UNCHANGED <<maxIdle, nextId, keyOf, borrowed, rejected>>

\* slip: the sweep stops after the first key
ForEachPurgeFirstOnly(st, keys) ==
    IF keys = <<>> THEN st ELSE purge(st, Head(keys))

\* Object.keys(this._pools).forEach(key => this.purge(key))
RECURSIVE ForEachPurge(_, _)
ForEachPurge(st, keys) ==
    IF keys = <<>> THEN st
    ELSE ForEachPurge(purge(st, Head(keys)), Tail(keys))

PurgeAll ==
    LET st == ForEachPurge([pools |-> pools, keyOrder |-> keyOrder,
                            log |-> <<>>], keyOrder)
    IN
    /\ pools' = st.pools
    /\ keyOrder' = st.keyOrder
    /\ destroyCalls' = Destroyed(destroyCalls, st.log)
    /\ last' = [op |-> "purgeAll", key |-> NoKey, res |-> NoRes,
                ret |-> NoRes, created |-> 0, validated |-> <<>>,
                destroyed |-> st.log, known |-> FALSE, before |-> <<>>,
                accepts |-> {}, wasStale |-> FALSE]
    /\ valid' = valid \ Range(st.log)
    /\ stale' = (stale \ Range(st.log))
                   \cup {r \in borrowed : keyOf[r] \in DOMAIN pools}
    /\ streak' = NoStreak
    /\ acquired' = {}
    /\ UNCHANGED <<maxIdle, nextId, keyOf, borrowed, rejected>>

\* ------------------------------------------------------------- environment
\* a live resource changes what the validator says about it
SetValid(resource) ==
    /\ resource \in borrowed \cup Idle(pools)
    /\ valid' = IF resource \in valid THEN valid \ {resource}
                ELSE valid \cup {resource}
    /\ last' = [NoOp EXCEPT !.op = "setValid"]
    /\ UNCHANGED <<pools, keyOrder, maxIdle, nextId, keyOf, borrowed,
                   destroyCalls, stale, rejected, streak, acquired>>

Next ==
    \/ \E key \in Keys : Acquire(key)
    \/ \E key \in Keys, resource \in Res : Release(key, resource)
    \/ \E key \in Keys : Purge(key)
    \/ PurgeAll
    \/ \E resource \in Res : SetValid(resource)

Spec == Init /\ [][Next]_vars

TypeOK ==
    /\ DOMAIN pools \subseteq Keys
    /\ Range(keyOrder) = DOMAIN pools
    /\ Len(keyOrder) = Cardinality(DOMAIN pools)
    /\ borrowed \subseteq 1..(nextId - 1)

\* ================================================================== claims
\* number of places r takes in the idle lists
Occurrences(r) ==
    Cardinality({ki \in UNION {{<<k, i>> : i \in 1..Len(pools[k])}
                               : k \in DOMAIN pools}
                   : pools[ki[1]][ki[2]] = r})

B2N(b) == IF b THEN 1 ELSE 0

\* C1: after any sequence of operations, every key present in the mapping
\* holds at most maxIdle idle resources.
C1_IdleAtMostMaxIdle ==
    \A k \in DOMAIN pools : Len(pools[k]) <= maxIdle

\* a validator-accepted resource was evicted because the list was full
C1_Witness ==
    /\ last.op = "release"
    /\ last.known
    /\ maxIdle >= 1
    /\ Len(last.before) = maxIdle
    /\ last.res \in last.accepts
    /\ last.destroyed = <<last.res>>

\* C2: every created resource is in exactly one of the states idle (once,
\* in one list), borrowed, destroyed (destroy called once); a resource not
\* yet created is in none of them.
C2_ExactlyOneState ==
    \A r \in Res :
        /\ Occurrences(r) <= 1
        /\ destroyCalls[r] <= 1
        /\ Occurrences(r) + B2N(r \in borrowed) + destroyCalls[r]
             = B2N(r < nextId)

\* one resource idle, one borrowed and one destroyed at the same time
C2_Witness ==
    \E r1, r2, r3 \in Res :
        /\ r1 \in Idle(pools)
        /\ r2 \in borrowed
        /\ destroyCalls[r3] = 1

\* C3 (as claimed): a resource that was borrowed under k when purge(k) ran
\* is destroyed, and not stored idle, when it is released, whatever happened
\* in between.
C3_StaleReleaseDestroys ==
    (last.op = "release" /\ last.wasStale)
        => (last.destroyed = <<last.res>> /\ last.res \notin Idle(pools))

\* C4: purge(k) destroys each resource idle under k at the call exactly
\* once, destroys no borrowed resource and no resource of another key, and
\* leaves k absent with nothing idle under it.
C4_PurgeDestroysIdleOfKey ==
    last.op = "purge" =>
        /\ \A r \in Res :
               Count(last.destroyed, r) = B2N(r \in Range(last.before))
        /\ \A r \in Range(last.destroyed) :
               /\ r \notin borrowed
               /\ keyOf[r] = last.key
               /\ destroyCalls[r] = 1
        /\ ~has(pools, last.key)
        /\ \A r \in Idle(pools) : keyOf[r] # last.key

\* purge of a key with two idle resources, one borrowed resource, and the
\* other key holding an idle resource
C4_Witness ==
    /\ last.op = "purge"
    /\ Len(last.before) >= 1
    /\ \E r \in borrowed : keyOf[r] = last.key
    /\ \E k \in DOMAIN pools : pools[k] # <<>>

\* C5: release under an absent key destroys the resource, stores it nowhere,
\* calls neither validate nor create, and leaves the key absent.
C5_ReleaseAbsentKey ==
    (last.op = "release" /\ ~last.known) =>
        /\ last.destroyed = <<last.res>>
        /\ destroyCalls[last.res] = 1
        /\ last.res \notin Idle(pools)
        /\ last.validated = <<>>
        /\ last.created = 0
        /\ ~has(pools, last.key)

\* a validator-accepted resource released after its key was purged
C5_Witness ==
    /\ last.op = "release"
    /\ ~last.known
    /\ last.wasStale
    /\ last.res \in last.accepts
    /\ maxIdle >= 1

\* C6: an acquire(k) that directly follows a release that pushed R onto k,
\* with the validator accepting R, returns R and does not call create.
C6_ReuseAfterRelease ==
    (last.op = "acquire" /\ last.res # NoRes /\ last.res \in last.accepts)
        => (last.ret = last.res /\ last.created = 0)

\* R was pushed on top of another idle resource and came back
C6_Witness ==
    /\ last.op = "acquire"
    /\ last.res # NoRes
    /\ last.ret = last.res
    /\ Len(last.before) = 2
    /\ last.before[1] \in last.accepts

\* C7: maxIdle + 1 validator-accepted releases onto a known key whose list
\* was empty, with no acquire or purge of the key in between, cause exactly
\* one destroy call, on the last released resource, and leave maxIdle
\* resources idle.
C7_EvictsOnePastMaxIdle ==
    streak.count = maxIdle + 1 =>
        /\ has(pools, streak.key)
        /\ Len(pools[streak.key]) = maxIdle
        /\ streak.destroyed = <<streak.res>>
        /\ destroyCalls[streak.res] = 1

C7_Witness ==
    /\ streak.count = maxIdle + 1
    /\ maxIdle >= 2
    /\ last.op = "release"

\* C8: a resource released while the validator rejects it is destroyed in
\* that release, is stored in no idle list, and is never handed out again.
C8_RejectedOnRelease ==
    /\ (last.op = "release" /\ last.accepts = {}) =>
           /\ last.destroyed = <<last.res>>
           /\ last.res \notin Idle(pools)
    /\ \A r \in rejected :
           /\ destroyCalls[r] = 1
           /\ r \notin Idle(pools)
           /\ r \notin borrowed

\* an acquire of the key of a resource that was rejected when released to a
\* list with room
C8_Witness ==
    /\ last.op = "acquire"
    /\ last.known
    /\ \E r \in rejected : keyOf[r] = last.key

\* position in before of the most recently pushed resource the validator
\* accepts, 0 when it accepts none
LastAccepted(before, accepts) ==
    LET idx == {i \in 1..Len(before) : before[i] \in accepts}
    IN IF idx = {} THEN 0
       ELSE CHOOSE i \in idx : \A j \in idx : j <= i

\* C9: acquire returns the most recently pushed idle resource the validator
\* accepts, destroys exactly the resources pushed after it, newest first,
\* and leaves the resources pushed before it idle and untouched.
C9_AcquireLifo ==
    (last.op = "acquire" /\ last.accepts # {}) =>
        LET b == last.before
            i == LastAccepted(b, last.accepts)
        IN /\ last.ret = b[i]
           /\ last.destroyed = Reverse(SubSeq(b, i + 1, Len(b)))
           /\ pools[last.key] = SubSeq(b, 1, i - 1)
           /\ \A j \in 1..(i - 1) : destroyCalls[b[j]] = 0
           /\ \A r \in Range(last.destroyed) : destroyCalls[r] = 1
           /\ last.created = 0

\* the top of the stack was rejected and destroyed, the one below returned
C9_Witness ==
    /\ last.op = "acquire"
    /\ Len(last.before) = 2
    /\ last.ret = last.before[1]
    /\ last.destroyed = <<last.before[2]>>

\* TRUE when releasing resource under key would store it idle
Pooled(key, resource) == release(pools, key, resource).log = <<>>

\* C10: acquire, release and purge of one key leave another key's idle list,
\* its presence and the outcome of a release under it unchanged; a resource
\* is only ever idle under, or returned for, the key it was created for.
C10_KeysIndependent ==
    [][ /\ \A b \in Keys :
             (last'.op \in {"acquire", "release", "purge"} /\ last'.key # b)
                 => /\ has(pools', b) = has(pools, b)
                    /\ PoolOrEmpty(pools', b) = PoolOrEmpty(pools, b)
                    /\ \A r \in borrowed :
                         keyOf[r] = b => (Pooled(b, r)' = Pooled(b, r))
        /\ \A k \in DOMAIN pools' :
             \A r \in Range(pools'[k]) : keyOf'[r] = k
        /\ (last'.op = "acquire" /\ last'.ret \in Res)
             => keyOf'[last'.ret] = last'.key
      ]_vars

\* a purge of one key while the other key holds an idle resource and has a
\* resource out
C10_Witness ==
    /\ last.op = "purge"
    /\ last.destroyed # <<>>
    /\ \E k \in DOMAIN pools :
          /\ pools[k] # <<>>
          /\ \E r \in borrowed : keyOf[r] = k

\* C11: has(k) is true exactly for the keys that were acquired and neither
\* purged nor swept by purgeAll since; a key never acquired is unknown, a
\* key with an empty idle list is known.
C11_HasIffAcquiredSincePurge ==
    \A k \in Keys : has(pools, k) <=> k \in acquired

\* one key known with an empty list, the other unknown although a resource
\* was just released under it
C11_Witness ==
    /\ last.op = "release"
    /\ ~last.known
    /\ ~has(pools, last.key)
    /\ \E k \in Keys : has(pools, k) /\ pools[k] = <<>>

\* every order in which the keys of S can be visited
Orders(S) == {o \in [1..Cardinality(S) -> S] : Range(o) = S}

\* purge(k) called for one key after another
RECURSIVE PurgeEach(_, _)
PurgeEach(st, keys) ==
    IF Len(keys) = 0 THEN st
    ELSE PurgeEach(purge(st, keys[1]), SubSeq(keys, 2, Len(keys)))

\* C12: purgeAll ends in the pool state, and makes the destroy calls, of
\* purge(k) called one after another for the keys present at its start, in
\* whatever order; afterwards none of these keys is present and every
\* resource that was idle has been destroyed exactly once.
C12_PurgeAllIsSequentialPurge ==
    [][ last'.op = "purgeAll" =>
          /\ \A o \in Orders(DOMAIN pools) :
               LET st == PurgeEach([pools |-> pools, keyOrder |-> keyOrder,
                                    log |-> <<>>], o)
               IN /\ pools' = st.pools
                  /\ \A r \in Res :
                       Count(last'.destroyed, r) = Count(st.log, r)
          /\ \A k \in DOMAIN pools : ~has(pools', k)
          /\ \A r \in Res :
               /\ Count(last'.destroyed, r) = B2N(r \in Idle(pools))
               /\ destroyCalls'[r] = destroyCalls[r] + B2N(r \in Idle(pools))
               /\ r \in Idle(pools) => destroyCalls'[r] = 1
      ]_vars

\* purgeAll destroyed idle resources of both keys
C12_Witness ==
    /\ last.op = "purgeAll"
    /\ \E r1, r2 \in Range(last.destroyed) : keyOf[r1] # keyOf[r2]

\* C13: when create throws, acquire ends with that error after one create
\* call, no resource has become borrowed or idle, no resource was created,
\* and the key is present with an empty idle list.
C13_CreateThrows ==
    [][ (last'.op = "acquire" /\ last'.ret = Threw) =>
          /\ last'.created = 1
          /\ borrowed' = borrowed
          /\ Idle(pools') \subseteq Idle(pools)
          /\ nextId' = nextId
          /\ has(pools', last'.key)
          /\ pools'[last'.key] = <<>>
      ]_vars

\* create threw on the first acquire of a key while a resource of the other
\* key was out
C13_Witness ==
    /\ last.op = "acquire"
    /\ last.ret = Threw
    /\ ~last.known
    /\ borrowed # {}
    /\ nextId <= MaxRes

\* C14: acquire can be called in every reachable state and ends after at
\* most one validate call per idle resource of the key; it returns an idle
\* resource the validator accepts or calls create, however many resources
\* are out.
C14_AcquireNeverBlocks ==
    /\ \A k \in Keys : ENABLED Acquire(k)
    /\ last.op = "acquire" =>
          /\ Len(last.validated) <= Len(last.before)
          /\ Len(pools[last.key]) + Len(last.validated) = Len(last.before)
          /\ IF last.created = 0
             THEN last.ret \in Range(last.before) \cap last.accepts
             ELSE last.created = 1 /\ last.ret \notin Range(last.before)

\* a resource was created although more than maxIdle resources of the key
\* were already out
C14_Witness ==
    /\ last.op = "acquire"
    /\ last.created = 1
    /\ last.ret \in Res
    /\ maxIdle >= 1
    /\ Cardinality({r \in borrowed : keyOf[r] = last.key}) >= maxIdle + 2

\* C15: acquire calls create exactly when the validator accepts no idle
\* resource of the key; then it calls create once, for that key, returns
\* the new resource without asking the validator about it, and leaves the
\* key's idle list empty.
C15_CreateIffNoAcceptedIdle ==
    last.op = "acquire" =>
        /\ last.created \in {0, 1}
        /\ last.created = 1 <=> last.accepts = {}
        /\ last.created = 1 =>
              /\ pools[last.key] = <<>>
              /\ Range(last.validated) = Range(last.before)
              /\ last.ret \in Res =>
                    /\ keyOf[last.ret] = last.key
                    /\ last.ret \notin Range(last.validated)
                    /\ last.ret \in borrowed
                    /\ destroyCalls[last.ret] = 0

\* two idle resources were rejected and destroyed before create was called
C15_Witness ==
    /\ last.op = "acquire"
    /\ last.created = 1
    /\ last.ret \in Res
    /\ Len(last.destroyed) = 2

\* C16: release under a present key either destroys the resource and leaves
\* the idle list as it was, which happens exactly when the list holds at
\* least maxIdle resources or the validator rejects the resource, or it
\* appends the resource as the newest element and does not destroy it.
C16_ReleasePresentKey ==
    (last.op = "release" /\ last.known) =>
        IF Len(last.before) >= maxIdle \/ last.res \notin last.accepts
        THEN /\ last.destroyed = <<last.res>>
             /\ destroyCalls[last.res] = 1
             /\ pools[last.key] = last.before
        ELSE /\ last.destroyed = <<>>
             /\ destroyCalls[last.res] = 0
             /\ pools[last.key] = Append(last.before, last.res)

\* the resource was pushed on top of an idle one
C16_Witness ==
    /\ last.op = "release"
    /\ last.known
    /\ Len(last.before) = 1
    /\ pools[last.key] = <<last.before[1], last.res>>

\* C17: a resource on which destroy was called is in no idle list and with
\* no caller, and acquire never returns one.
C17_DestroyedNeverHandedOut ==
    /\ \A r \in Res :
          destroyCalls[r] >= 1 => (r \notin Idle(pools) /\ r \notin borrowed)
    /\ (last.op = "acquire" /\ last.ret \in Res) =>
          /\ destroyCalls[last.ret] = 0
          /\ last.ret \notin Range(last.destroyed)

\* acquire returned an idle resource of a key of which another resource had
\* been destroyed
C17_Witness ==
    /\ last.op = "acquire"
    /\ last.created = 0
    /\ last.ret \in Res
    /\ \E r \in Res : destroyCalls[r] = 1 /\ keyOf[r] = last.key

\* C18: purge of an absent key calls destroy on nothing and changes neither
\* the mapping nor any idle list; after any purge(k), a second purge(k)
\* would change nothing.
C18_PurgeAbsentKeyNoOp ==
    [][ /\ (last'.op = "purge" /\ ~last'.known) =>
              /\ last'.destroyed = <<>>
              /\ destroyCalls' = destroyCalls
              /\ pools' = pools
              /\ keyOrder' = keyOrder
              /\ borrowed' = borrowed
              /\ ~has(pools', last'.key)
        /\ last'.op = "purge" =>
              purge([pools |-> pools', keyOrder |-> keyOrder',
                     log |-> <<>>], last'.key)
                = [pools |-> pools', keyOrder |-> keyOrder', log |-> <<>>]
      ]_vars

\* purge of a key that was already purged, while a resource of it is out
\* and the other key holds an idle resource
C18_Witness ==
    /\ last.op = "purge"
    /\ ~last.known
    /\ \E r \in borrowed : keyOf[r] = last.key
    /\ \E k \in DOMAIN pools : pools[k] # <<>>

====
